---- MODULE Spec2Model ----
(***************************************************************************)
(* A model of the MAX7219 driver: the frame connectors of                  *)
(* src/src/connectors.rs (PinConnector, SpiConnector, SpiConnectorSW) and  *)
(* the device controller of src/src/lib.rs (MAX7219<D, CONNECTOR>), with   *)
(* the chained chips as the environment that latches each frame.           *)
(***************************************************************************)
EXTENDS Integers, Sequences, FiniteSets, TLC

VARIABLES
    kind,         \* which connector the driver owns: "pin", "spi" or "spisw"
    devices,      \* chain length: const D of MAX7219 and Connector::devices()
    decode_mode,  \* MAX7219.decode_mode, the cached decode mode
    buffer,       \* the connector's self.buffer, MAX_DISPLAYS * 2 bytes
    regs,         \* the chips: regs[b][r] is register r of device b
    wire,         \* the transport operations of the last frame attempted
    log           \* one record per call made so far, oldest first

vars == <<kind, devices, decode_mode, buffer, regs, wire, log>>

----------------------------------------------------------------------------
(* Bounds of the model *)

\* Longest chain the device-controller specification explores.
MaxDevices == 3
\* Number of calls in a behaviour.
MaxOps == 2

----------------------------------------------------------------------------
(* Program constants *)

\* crate::MAX_DISPLAYS, imported by connectors.rs; its definition is not in
\* src/, the value is the spec's "1..=8".
MAX_DISPLAYS == 8
MAX_DIGITS == 8

Command ==
    [Noop |-> 0, Digit0 |-> 1, Digit1 |-> 2, Digit2 |-> 3, Digit3 |-> 4,
     Digit4 |-> 5, Digit5 |-> 6, Digit6 |-> 7, Digit7 |-> 8, DecodeMode |-> 9,
     Intensity |-> 10, ScanLimit |-> 11, Power |-> 12, DisplayTest |-> 15]

DecodeMode ==
    [NoDecode |-> 0, CodeBDigit0 |-> 1, CodeBDigits3_0 |-> 15,
     CodeBDigits7_0 |-> 255]

Modes == DOMAIN DecodeMode

\* `mode as u8`
ModeByte(mode) == DecodeMode[mode]

Kinds == {"pin", "spi", "spisw"}

\* The register codes a chip decodes; 0 (Noop) programs nothing.
RegCodes == {Command[c] : c \in DOMAIN Command} \ {Command.Noop}

----------------------------------------------------------------------------
(* Bytes and bits *)

Pow2(k) == 2 ^ k

\* value & (1 << k) > 0
BitSet(value, k) == (value \div Pow2(k)) % 2 = 1

Zeros(n) == [i \in 1..n |-> 0]

----------------------------------------------------------------------------
(* Frame connectors: connectors.rs *)

\* ConnBuffer with the offset taken as addr instead of addr * 2.
ConnBufferByteOffset(addr, header, data) ==
    [i \in 1..(MAX_DISPLAYS * 2) |->
        IF i = addr + 1 THEN header
        ELSE IF i = addr + 2 THEN data
        ELSE 0]

\* ConnBuffer with an address past the chain wrapped around to a device of it.
ConnBufferWrapping(addr, header, data) ==
    [i \in 1..(MAX_DISPLAYS * 2) |->
        IF i = (addr % devices) * 2 + 1 THEN header
        ELSE IF i = (addr % devices) * 2 + 2 THEN data
        ELSE 0]

\* self.buffer after lines 87-92 of write_raw: cleared, then the pair stored
\* at offset addr * 2 (sequence index offset + 1).
ConnBuffer(addr, header, data) ==
    [i \in 1..(MAX_DISPLAYS * 2) |->
        IF i = addr * 2 + 1 THEN header
        ELSE IF i = addr * 2 + 2 THEN data
        ELSE 0]

\* ConnFrame without the clearing of self.buffer: the pair is stored over
\* whatever the previous call left.
ConnFrameStale(n, addr, header, data) ==
    SubSeq([buffer EXCEPT ![addr * 2 + 1] = header, ![addr * 2 + 2] = data], 1, n * 2)

\* The bytes write_raw transmits: self.buffer[0..max_bytes], max_bytes = devices * 2.
ConnFrame(n, addr, header, data) ==
    SubSeq(ConnBuffer(addr, header, data), 1, n * 2)

PinEv(pin, level) == [op |-> pin, v |-> level]
SpiEv(bytes) == [op |-> "spi", v |-> bytes]

\* PinOps shifting each byte least significant bit first.
PinOpsLsbFirst(bytes) ==
    LET nb == Len(bytes)
        body == [k \in 1..(nb * 24) |->
                    LET b == (k - 1) \div 24
                        i == ((k - 1) % 24) \div 3
                        ph == (k - 1) % 3
                    IN  IF ph = 0
                        THEN [op |-> "data", v |-> IF (bytes[b + 1] \div (2 ^ i)) % 2 = 1 THEN 1 ELSE 0]
                        ELSE IF ph = 1 THEN [op |-> "sck", v |-> 1] ELSE [op |-> "sck", v |-> 0]]
    IN  <<[op |-> "cs", v |-> 0]>> \o body \o <<[op |-> "cs", v |-> 1]>>

\* PinOps raising the clock before the data pin is set.
PinOpsClockFirst(bytes) ==
    LET nb == Len(bytes)
        body == [k \in 1..(nb * 24) |->
                    LET b == (k - 1) \div 24
                        i == ((k - 1) % 24) \div 3
                        ph == (k - 1) % 3
                    IN  IF ph = 1
                        THEN PinEv("data", IF BitSet(bytes[b + 1], 7 - i) THEN 1 ELSE 0)
                        ELSE IF ph = 0 THEN PinEv("sck", 1) ELSE PinEv("sck", 0)]
    IN  <<PinEv("cs", 0)>> \o body \o <<PinEv("cs", 1)>>

\* The pin operations of PinConnector::write_raw for the transmitted bytes:
\* cs low, then per byte and per bit i in 0..8 the data pin set from bit 7 - i,
\* sck high, sck low, then cs high.
PinOps(bytes) ==
    LET nb == Len(bytes)
        body == [k \in 1..(nb * 24) |->
                    LET b == (k - 1) \div 24
                        i == ((k - 1) % 24) \div 3
                        ph == (k - 1) % 3
                    IN  IF ph = 0
                        THEN PinEv("data", IF BitSet(bytes[b + 1], 7 - i) THEN 1 ELSE 0)
                        ELSE IF ph = 1 THEN PinEv("sck", 1) ELSE PinEv("sck", 0)]
    IN  <<PinEv("cs", 0)>> \o body \o <<PinEv("cs", 1)>>

\* SpiConnector::write_raw hands the slice to one SPI write.
SpiOps(bytes) == <<SpiEv(bytes)>>

\* SpiSWOps raising chip-select before the transfer instead of after it.
SpiSWOpsEarlyHigh(bytes) ==
    <<[op |-> "cs", v |-> 0], [op |-> "cs", v |-> 1], [op |-> "spi", v |-> bytes]>>

\* SpiConnectorSW::write_raw: cs low, the inner connector's write, cs high.
SpiSWOps(bytes) == <<PinEv("cs", 0)>> \o SpiOps(bytes) \o <<PinEv("cs", 1)>>

\* The transport operations one frame takes on connector k.
WireOps(k, bytes) ==
    CASE k = "pin" -> PinOps(bytes)
      [] k = "spi" -> SpiOps(bytes)
      [] k = "spisw" -> SpiSWOps(bytes)

\* ErrOf with every failure reported as an SPI error.
ErrOfAlwaysSpi(ev) == "Spi"

\* The error a failed transport operation is mapped to (map_err).
ErrOf(ev) == IF ev.op = "spi" THEN "Spi" ELSE "Pin"

\* The errors connector k can return.
ErrKinds(k) ==
    CASE k = "pin" -> {"Pin"}
      [] k = "spi" -> {"Spi"}
      [] k = "spisw" -> {"Pin", "Spi"}

----------------------------------------------------------------------------
(* The chips *)

\* What a chain of chips holds after latching one frame: device b loads the
\* pair in slot b, and a register code of 0 (Noop) loads nothing.
Latch(rg, frame) ==
    [b \in DOMAIN rg |->
        IF 2 * b + 2 <= Len(frame) /\ frame[2 * b + 1] \in RegCodes
        THEN [rg[b] EXCEPT ![frame[2 * b + 1]] = frame[2 * b + 2]]
        ELSE rg[b]]

RECURSIVE LatchAll(_, _)
LatchAll(rg, frames) ==
    IF frames = <<>> THEN rg
    ELSE LatchAll(Latch(rg, Head(frames)), Tail(frames))

----------------------------------------------------------------------------
(* Inputs *)

Devs == 0..(devices - 1)

\* Register/value pairs given to the raw writes.
RawPairs == {<<Command.Digit0, 255>>, <<Command.Power, 1>>}

\* Number of transport operations one frame of n devices takes on connector k.
WireLen(k, n) ==
    CASE k = "pin" -> n * 2 * 8 * 3 + 2
      [] k = "spi" -> 1
      [] k = "spisw" -> 3

\* Where a transport operation may fail within a frame of len operations:
\* 0 is no failure, otherwise the index of the failing operation.
FailPoints(len) == {0} \cup {p \in {1, 2, len} : p <= len}

----------------------------------------------------------------------------
(* Calls *)

Rec(op, addr, arg, frames, res) ==
    [op |-> op, addr |-> addr, arg |-> arg, dm0 |-> decode_mode,
     regs0 |-> regs, buf0 |-> buffer, frames |-> frames, res |-> res]

\* The operations performed when operation number fail of ops fails (the
\* failing one is the last), all of ops when fail = 0.
Attempted(ops, fail) == IF fail = 0 THEN ops ELSE SubSeq(ops, 1, fail)

\* Connector::write_raw(addr, header, data) on the driver's connector; fail is
\* the index of the transport operation that fails, 0 for none.
WriteRaw(addr, header, data, fail) ==
    LET frame == ConnFrame(devices, addr, header, data)
        ops == WireOps(kind, frame)
        res == IF fail = 0 THEN "Ok" ELSE ErrOf(ops[fail])
    IN  /\ Len(log) < MaxOps
        /\ buffer' = ConnBuffer(addr, header, data)
        /\ wire' = Attempted(ops, fail)
        /\ regs' = IF fail = 0 THEN Latch(regs, frame) ELSE regs
        /\ log' = Append(log, Rec("write_raw", addr, <<header, data>>,
                                  <<frame>>, res))
        /\ UNCHANGED <<kind, devices, decode_mode>>

\* PinConnector::new / SpiConnector::new: the count is stored as given.
NewDevices(displays) == displays

\* The transport operations write_raw performs before it panics on a chain
\* longer than the buffer: PinConnector shifts the 16 bytes of the buffer and
\* panics reading buffer[16]; SpiConnector panics taking the slice;
\* SpiConnectorSW has lowered chip-select before the inner call panics.
OversizeOps(k, buf) ==
    CASE k = "pin" -> SubSeq(PinOps(buf), 1, Len(buf) * 24 + 1)
      [] k = "spi" -> <<>>
      [] k = "spisw" -> <<PinEv("cs", 0)>>

\* Connector::write_raw for any address and chain length: an offset past the
\* buffer panics at the store, a chain longer than the buffer panics at the
\* read or the slice; no frame is latched in either case.
WriteRawAny(addr, header, data, fail) ==
    IF addr * 2 + 1 >= MAX_DISPLAYS * 2
    THEN /\ Len(log) < MaxOps
         /\ fail = 0
         /\ buffer' = Zeros(MAX_DISPLAYS * 2)
         /\ wire' = IF kind = "spisw" THEN <<PinEv("cs", 0)>> ELSE <<>>
         /\ log' = Append(log, Rec("write_raw", addr, <<header, data>>, <<>>, "Panic"))
         /\ UNCHANGED <<kind, devices, decode_mode, regs>>
    ELSE IF devices * 2 > MAX_DISPLAYS * 2
    THEN /\ Len(log) < MaxOps
         /\ fail = 0
         /\ buffer' = ConnBuffer(addr, header, data)
         /\ wire' = OversizeOps(kind, ConnBuffer(addr, header, data))
         /\ log' = Append(log, Rec("write_raw", addr, <<header, data>>,
                                   <<ConnBuffer(addr, header, data)>>, "Panic"))
         /\ UNCHANGED <<kind, devices, decode_mode, regs>>
    ELSE WriteRaw(addr, header, data, fail)

----------------------------------------------------------------------------
(* Encoding tables: lib.rs *)

\* bcd_byte with the dot bit set in every byte it returns.
bcd_byteDotSet(b) == IF b < 128 THEN b + 128 ELSE b

\* bcd_byte: ASCII byte to the Code-B byte; any other byte passes unchanged.
bcd_byte(b) ==
    CASE b = 32 -> 15        \* ' '
      [] b = 45 -> 10        \* '-'
      [] b = 101 -> 11       \* 'e'
      [] b = 69 -> 139       \* 'E'
      [] b = 104 -> 12       \* 'h'
      [] b = 72 -> 140       \* 'H'
      [] b = 108 -> 13       \* 'l'
      [] b = 76 -> 141       \* 'L'
      [] b = 112 -> 14       \* 'p'
      [] b = 80 -> 142       \* 'P'
      [] OTHER -> b

\* The match of ssb_byte: ASCII byte to segment pattern, '?' for the rest.
ssb_table(b) ==
    CASE b = 32 -> 0                      \* ' '
      [] b = 46 -> 128                    \* '.'
      [] b = 45 -> 1                      \* '-'
      [] b = 95 -> 8                      \* '_'
      [] b = 48 -> 126                    \* '0'
      [] b = 49 -> 48                     \* '1'
      [] b = 50 -> 109                    \* '2'
      [] b = 51 -> 121                    \* '3'
      [] b = 52 -> 51                     \* '4'
      [] b = 53 -> 91                     \* '5'
      [] b = 54 -> 95                     \* '6'
      [] b = 55 -> 112                    \* '7'
      [] b = 56 -> 127                    \* '8'
      [] b = 57 -> 123                    \* '9'
      [] b \in {97, 65} -> 119            \* 'a' | 'A'
      [] b = 98 -> 31                     \* 'b'
      [] b \in {99, 67} -> 78             \* 'c' | 'C'
      [] b = 100 -> 61                    \* 'd'
      [] b \in {101, 69} -> 79            \* 'e' | 'E'
      [] b \in {102, 70} -> 71            \* 'f' | 'F'
      [] b \in {103, 71} -> 94            \* 'g' | 'G'
      [] b \in {104, 72} -> 55            \* 'h' | 'H'
      [] b \in {105, 73} -> 48            \* 'i' | 'I'
      [] b \in {106, 74} -> 60            \* 'j' | 'J'
      [] b \in {108, 76} -> 14            \* 'l' | 'L'
      [] b \in {110, 78} -> 21            \* 'n' | 'N'
      [] b \in {111, 79} -> 126           \* 'o' | 'O'
      [] b \in {112, 80} -> 103           \* 'p' | 'P'
      [] b = 113 -> 115                   \* 'q'
      [] b \in {115, 83} -> 91            \* 's' | 'S'
      [] b \in {117, 85} -> 62            \* 'u' | 'U'
      [] OTHER -> 229                     \* '?'

\* ssb_byte(b, dot): the pattern, with result |= 0b1000_0000 when dot.
ssb_byte(b, dot) ==
    LET result == ssb_table(b)
    IN  IF dot /\ result < 128 THEN result + 128 ELSE result

----------------------------------------------------------------------------
(* Device controller: lib.rs *)

\* The buffer write_raw_byte builds: [[0; 2]; D] flattened, the pair stored at
\* offset addr * 2.
WriteRawByteFrame(n, addr, header, data) ==
    [i \in 1..(n * 2) |->
        IF i = addr * 2 + 1 THEN header
        ELSE IF i = addr * 2 + 2 THEN data
        ELSE 0]

\* Connector::write_raw_bytes(buffer), which lib.rs calls and connectors.rs does
\* not define: the buffer goes out as a frame of write_raw does.
ConnWriteRawBytes(k, bytes) == WireOps(k, bytes)

\* One write_raw_byte call of an operation: the addressed pair, and dm, the
\* cached decode mode at the moment the frame is handed to the connector.
Step(addr, header, data, dm) == [a |-> addr, h |-> header, d |-> data, dm |-> dm]

\* One write_raw_bytes call with a buffer the operation built itself.
BufferStep(buf, dm) == [a |-> -1, h |-> buf, d |-> 0, dm |-> dm]

StepFrame(st) ==
    IF st.a = -1 THEN st.h ELSE WriteRawByteFrame(devices, st.a, st.h, st.d)

\* write_command(addr, command, data)
WriteCommandPlan(dm, addr, command, data) == <<Step(addr, Command[command], data, dm)>>

\* power_on / power_off: for i in 0..D the Power register.
PowerPlan(dm, n, v) == [i \in 1..n |-> Step(i - 1, Command.Power, v, dm)]

\* clear_display: for i in 1..9 write_raw_byte(addr, i, 0x00).
ClearDisplayPlan(dm, addr) == [i \in 1..8 |-> Step(addr, i, 0, dm)]

\* SetDecodeModePlan without the comparison with the cache.
SetDecodeModePlanAlways(dm, addr, mode) ==
    <<[a |-> addr, h |-> 9, d |-> DecodeMode[mode], dm |-> mode]>>

\* The buffer of clear_all_displays after the passes for digit..8 of its outer
\* loop: each pass stores digit and 0x00 in every display's slot of buf.
RECURSIVE ClearAllBuffer(_, _)
ClearAllBuffer(digit, buf) ==
    IF digit > 8 THEN buf
    ELSE ClearAllBuffer(digit + 1,
                        [i \in 1..Len(buf) |-> IF i % 2 = 1 THEN digit ELSE 0])

\* clear_all_displays: the loops fill one buffer, which is written once.
ClearAllPlan(dm, n) == <<BufferStep(ClearAllBuffer(1, Zeros(n * 2)), dm)>>

\* set_decode_mode: nothing when the cache equals mode; otherwise the cache is
\* assigned first and the DecodeMode register written.
SetDecodeModePlan(dm, addr, mode) ==
    IF dm # mode
    THEN <<Step(addr, Command.DecodeMode, ModeByte(mode), mode)>>
    ELSE <<>>

\* The address write_str, write_bcd and write_digits give set_decode_mode.
ModeAddr(addr) == 0

\* DotOf with bit 0 of the mask belonging to the first character.
DotOfLsbFirst(dots, i) == BitSet(dots, i - 1)

\* (dots & dot_product) > 0 for character i (1-based), dot_product = 0x80 >> (i - 1)
DotOf(dots, i) == BitSet(dots, 8 - i)

\* write_str: force NoDecode, character i to digit register 9 - i, restore.
WriteStrPlan(dm, addr, string, dots) ==
    SetDecodeModePlan(dm, ModeAddr(addr), "NoDecode")
    \o [i \in 1..MAX_DIGITS |->
            Step(addr, MAX_DIGITS - (i - 1), ssb_byte(string[i], DotOf(dots, i)), "NoDecode")]
    \o SetDecodeModePlan("NoDecode", ModeAddr(addr), dm)

\* WriteBcdPlan without the restoring set_decode_mode.
WriteBcdPlanNoRestore(dm, addr, bcd) ==
    SetDecodeModePlan(dm, ModeAddr(addr), "CodeBDigits7_0")
    \o [i \in 1..MAX_DIGITS |->
            Step(addr, MAX_DIGITS - (i - 1), bcd_byte(bcd[i]), "CodeBDigits7_0")]

\* write_bcd: force CodeBDigits7_0, character i to digit register 9 - i, restore.
WriteBcdPlan(dm, addr, bcd) ==
    SetDecodeModePlan(dm, ModeAddr(addr), "CodeBDigits7_0")
    \o [i \in 1..MAX_DIGITS |->
            Step(addr, MAX_DIGITS - (i - 1), bcd_byte(bcd[i]), "CodeBDigits7_0")]
    \o SetDecodeModePlan("CodeBDigits7_0", ModeAddr(addr), dm)

\* WriteDigitsPlan with the digit registers taken from 8 down, as write_str does.
WriteDigitsPlanDescending(dm, addr, raw) ==
    SetDecodeModePlan(dm, ModeAddr(addr), "NoDecode")
    \o [i \in 1..MAX_DIGITS |-> Step(addr, MAX_DIGITS - (i - 1), raw[i], "NoDecode")]
    \o SetDecodeModePlan("NoDecode", ModeAddr(addr), dm)

\* write_digits: force NoDecode, byte i to digit register i, restore.
WriteDigitsPlan(dm, addr, raw) ==
    SetDecodeModePlan(dm, ModeAddr(addr), "NoDecode")
    \o [i \in 1..MAX_DIGITS |-> Step(addr, i, raw[i], "NoDecode")]
    \o SetDecodeModePlan("NoDecode", ModeAddr(addr), dm)

\* test(addr, is_on): is_on as u8
TestPlan(dm, addr, is_on) ==
    WriteCommandPlan(dm, addr, "DisplayTest", IF is_on THEN 1 ELSE 0)

\* The body of init's loop for device i.
InitDevicePlan(dm, i) ==
    TestPlan(dm, i, FALSE)
    \o WriteCommandPlan(dm, i, "ScanLimit", 7)
    \o SetDecodeModePlan(dm, i, "NoDecode")
    \o ClearDisplayPlan("NoDecode", i)

RECURSIVE InitLoop(_, _, _)
InitLoop(dm, i, n) ==
    IF i >= n THEN <<>>
    ELSE InitDevicePlan(dm, i) \o InitLoop("NoDecode", i + 1, n)

\* init: the loop over 0..D, then power_off.
InitPlan(dm, n) ==
    InitLoop(dm, 0, n) \o PowerPlan(IF n > 0 THEN "NoDecode" ELSE dm, n, 0)

\* The transport operation that fails inside a failing frame of a controller
\* call: the first one that yields each error the connector can return.
CtlFailOps ==
    CASE kind = "pin" -> {1}
      [] kind = "spi" -> {1}
      [] kind = "spisw" -> {1, 2}

\* The frames of a plan of len frames at which a failure is tried: the first
\* two and the last two.
FailFrames(len) == {k \in {1, 2, len - 1, len} : 1 <= k /\ k <= len}

\* How a call of plan may go: <<0, 0>> is success, <<k, p>> the failure of
\* transport operation p of frame k.
Fails(plan) ==
    IF Len(log) >= MaxOps THEN {}
    ELSE {<<0, 0>>} \cup {<<k, p>> : k \in FailFrames(Len(plan)), p \in CtlFailOps}

\* Call with the frames after the failing one still issued.
CallContinues(op, addr, arg, plan, final, f) ==
    LET frames == [i \in 1..Len(plan) |-> StepFrame(plan[i])]
        sent == IF f[1] = 0 THEN frames
                ELSE SubSeq(frames, 1, f[1] - 1) \o SubSeq(frames, f[1] + 1, Len(frames))
        ops == ConnWriteRawBytes(kind, frames[IF f[1] = 0 THEN Len(frames) ELSE f[1]])
    IN  /\ Len(log) < MaxOps
        /\ decode_mode' = final
        /\ regs' = LatchAll(regs, sent)
        /\ wire' = IF frames = <<>> THEN wire ELSE Attempted(ops, f[2])
        /\ log' = Append(log, Rec(op, addr, arg, frames,
                                  IF f[1] = 0 THEN "Ok" ELSE ErrOf(ops[f[2]])))
        /\ UNCHANGED <<kind, devices, buffer>>

\* A controller call that issues plan frame by frame and returns at the first
\* frame that fails (the `?` after each await); final is the cache on success.
Call(op, addr, arg, plan, final, f) ==
    LET frames == [i \in 1..Len(plan) |-> StepFrame(plan[i])]
        issued == Attempted(frames, f[1])
        sent == IF f[1] = 0 THEN frames ELSE SubSeq(frames, 1, f[1] - 1)
        ops == ConnWriteRawBytes(kind, issued[Len(issued)])
    IN  /\ Len(log) < MaxOps
        /\ decode_mode' = IF f[1] = 0 THEN final ELSE plan[f[1]].dm
        /\ regs' = LatchAll(regs, sent)
        /\ wire' = IF issued = <<>> THEN wire ELSE Attempted(ops, f[2])
        /\ log' = Append(log, Rec(op, addr, arg, issued,
                                  IF f[1] = 0 THEN "Ok" ELSE ErrOf(ops[f[2]])))
        /\ UNCHANGED <<kind, devices, buffer>>

PowerOn(f) == Call("power_on", 0, 1, PowerPlan(decode_mode, devices, 1), decode_mode, f)

PowerOff(f) == Call("power_off", 0, 0, PowerPlan(decode_mode, devices, 0), decode_mode, f)

ClearDisplay(addr, f) ==
    Call("clear_display", addr, 0, ClearDisplayPlan(decode_mode, addr), decode_mode, f)

ClearAllDisplays(f) ==
    Call("clear_all_displays", 0, 0, ClearAllPlan(decode_mode, devices), decode_mode, f)

SetIntensity(addr, intensity, f) ==
    Call("set_intensity", addr, intensity,
         WriteCommandPlan(decode_mode, addr, "Intensity", intensity), decode_mode, f)

SetDecodeMode(addr, mode, f) ==
    Call("set_decode_mode", addr, mode, SetDecodeModePlan(decode_mode, addr, mode), mode, f)

WriteStr(addr, string, dots, f) ==
    Call("write_str", addr, <<string, dots>>,
         WriteStrPlan(decode_mode, addr, string, dots), decode_mode, f)

WriteBcd(addr, bcd, f) ==
    Call("write_bcd", addr, bcd, WriteBcdPlan(decode_mode, addr, bcd), decode_mode, f)

WriteDigits(addr, raw, f) ==
    Call("write_digits", addr, raw, WriteDigitsPlan(decode_mode, addr, raw), decode_mode, f)

Test(addr, is_on, f) ==
    Call("test", addr, is_on, TestPlan(decode_mode, addr, is_on), decode_mode, f)

InitOp(f) ==
    Call("init", 0, 0, InitPlan(decode_mode, devices),
         IF devices > 0 THEN "NoDecode" ELSE decode_mode, f)

WriteRawByte(addr, header, data, f) ==
    Call("write_raw_byte", addr, <<header, data>>,
         <<Step(addr, header, data, decode_mode)>>, decode_mode, f)

\* slice.reverse()
Reverse(s) == [i \in 1..Len(s) |-> s[Len(s) + 1 - i]]

\* The while loop of base_10_bytes: the digits of n, least significant first.
RECURSIVE Base10Loop(_, _)
Base10Loop(n, buf) ==
    IF n > 0 THEN Base10Loop(n \div 10, Append(buf, (n % 10) + 48)) ELSE buf

\* The least i32.
MinI32 == -2147483647 - 1

\* base_10_bytes with no range check before formatting.
InDisplayRangeAll(n) == TRUE

\* (-9999999..99999999).contains(&n): the range leaves its upper end out.
InDisplayRange(n) == n >= -9999999 /\ n < 99999999

\* n = -n at the width of i32: the least i32 has no negation, a build without
\* overflow checks wraps it to itself.
Neg32(n) == IF n = MinI32 THEN MinI32 ELSE 0 - n

\* Whether base_10_bytes reaches n = -n with a value that overflows.
NegationOverflows(n) == InDisplayRange(n) /\ n < 0 /\ n = MinI32

\* The bytes base_10_bytes writes into buf, in the order of its indices 0, 1, ..
Base10Written(n) ==
    IF ~InDisplayRange(n) \/ n = 0 THEN <<>>
    ELSE LET digits == Base10Loop(IF n < 0 THEN Neg32(n) ELSE n, <<>>)
         IN  IF n < 0 THEN Append(digits, 45) ELSE digits

\* base_10_bytes(n, buf): b"Err" outside the range, b"0" for 0, else the
\* digits and the sign written into buf, reversed.
base_10_bytes(n) ==
    IF ~InDisplayRange(n) THEN <<69, 114, 114>>
    ELSE IF n = 0 THEN <<48>>
    ELSE Reverse(Base10Written(n))

\* A u32 as its two 16-bit halves.
U32(hi, lo) == [hi |-> hi, lo |-> lo]

\* n % 16 and n / 16 of a u32.
U32Mod16(n) == n.lo % 16
U32Div16(n) == U32(n.hi \div 16, (n.hi % 16) * 4096 + (n.lo \div 16))

\* The match of hex_bytes: the digit's character, lower case.
HexChar(digit) == IF digit < 10 THEN 48 + digit ELSE 87 + digit

\* The while loop of hex_bytes: the digits of n, least significant first.
RECURSIVE HexLoop(_, _)
HexLoop(n, buf) ==
    IF n.hi > 0 \/ n.lo > 0
    THEN HexLoop(U32Div16(n), Append(buf, HexChar(U32Mod16(n))))
    ELSE buf

\* The bytes hex_bytes writes into buf, in the order of its indices.
HexWritten(n) == IF n = U32(0, 0) THEN <<>> ELSE HexLoop(n, <<>>)

\* hex_bytes(n, buf): b"0" for 0, else the digits written into buf, reversed.
hex_bytes(n) == IF n = U32(0, 0) THEN <<48>> ELSE Reverse(HexWritten(n))

\* Whether writing the bytes one by one into the digit buffer [0u8; 8] of
\* write_integer and write_hex indexes past its end.
IndexPanics(written) == \E i \in 0..(Len(written) - 1) : i >= 8

\* assert!(val.len() <= 8) of pad_left
PadLeftPanics(val) == ~(Len(val) <= 8)

\* pad_left(val): val copied to the right end of 8 spaces.
pad_left(val) ==
    [k \in 1..8 |-> IF k > 8 - Len(val) THEN val[k - (8 - Len(val))] ELSE 32]

\* A formatting call that panics before it hands anything to write_str.
FormatPanic(op, addr, value, f) ==
    /\ Len(log) < MaxOps
    /\ f = <<0, 0>>
    /\ log' = Append(log, Rec(op, addr, [value |-> value, string |-> <<>>, dots |-> 0],
                              <<>>, "Panic"))
    /\ UNCHANGED <<kind, devices, decode_mode, buffer, regs, wire>>

\* Overflow checks are on in a debug build and off in a release build.
Builds == {"debug", "release"}

\* write_integer: write_str of the padded decimal bytes with no dots.
WriteInteger(addr, value, build, f) ==
    IF \/ build = "debug" /\ NegationOverflows(value)
       \/ IndexPanics(Base10Written(value))
       \/ PadLeftPanics(base_10_bytes(value))
    THEN FormatPanic("write_integer", addr, value, f)
    ELSE LET buf == pad_left(base_10_bytes(value))
         IN  Call("write_integer", addr, [value |-> value, string |-> buf, dots |-> 0],
                  WriteStrPlan(decode_mode, addr, buf, 0), decode_mode, f)

\* write_hex: write_str of the padded hexadecimal bytes with no dots.
WriteHex(addr, value, f) ==
    IF IndexPanics(HexWritten(value)) \/ PadLeftPanics(hex_bytes(value))
    THEN FormatPanic("write_hex", addr, value, f)
    ELSE LET buf == pad_left(hex_bytes(value))
         IN  Call("write_hex", addr, [value |-> value, string |-> buf, dots |-> 0],
                  WriteStrPlan(decode_mode, addr, buf, 0), decode_mode, f)

\* from_pins / from_spi / from_spi_cs: new(connector) with a fresh connector of
\* kind k; the chips keep what they hold.
New(k) ==
    /\ Len(log) < MaxOps
    /\ kind' = k
    /\ decode_mode' = "NoDecode"
    /\ buffer' = Zeros(MAX_DISPLAYS * 2)
    /\ log' = Append(log, Rec("new", 0, k, <<>>, "Ok"))
    /\ UNCHANGED <<devices, regs, wire>>

----------------------------------------------------------------------------
(* Specifications *)

InitDriver ==
    /\ kind \in Kinds
    /\ decode_mode = "NoDecode"
    /\ buffer = Zeros(MAX_DISPLAYS * 2)
    /\ regs = [b \in Devs |-> [r \in RegCodes |-> 0]]
    /\ wire = <<>>
    /\ log = <<>>

\* The connectors alone, for every chain length.
InitConn ==
    /\ devices \in 1..MAX_DISPLAYS
    /\ InitDriver

NextConn ==
    \/ \E a \in Devs, p \in RawPairs :
         \E f \in (IF Len(log) >= MaxOps THEN {} ELSE FailPoints(WireLen(kind, devices))) :
            WriteRaw(a, p[1], p[2], f)
    \/ \E a \in Devs, p \in RawPairs :
         \E f \in Fails(<<Step(a, p[1], p[2], decode_mode)>>) : WriteRawByte(a, p[1], p[2], f)

SpecConn == InitConn /\ [][NextConn]_vars

\* Largest device count given to a connector's constructor.
MaxDisplays == 9

\* The connectors constructed with any requested count.
InitChain ==
    /\ \E displays \in 1..MaxDisplays : devices = NewDevices(displays)
    /\ InitDriver

NextChain ==
    \E a \in {0, devices - 1} \cup {x \in {devices, MAX_DISPLAYS - 1} : x < MAX_DISPLAYS},
       p \in RawPairs :
        \E f \in (IF Len(log) >= MaxOps THEN {}
                  ELSE IF devices > MAX_DISPLAYS THEN {0}
                  ELSE FailPoints(WireLen(kind, devices))) :
            WriteRawAny(a, p[1], p[2], f)

SpecChain == InitChain /\ [][NextChain]_vars

\* Inputs of the controller calls.
Strings == {<<49, 50, 51, 52, 53, 54, 55, 56>>,      \* "12345678"
            <<32, 45, 72, 101, 76, 80, 46, 122>>}    \* " -HeLP.z"
StrArgs == {<<<<49, 50, 51, 52, 53, 54, 55, 56>>, 0>>,      \* "12345678", no dot
            <<<<32, 45, 72, 101, 76, 80, 46, 122>>, 193>>}   \* " -HeLP.z", dots 0b1100_0001
RawDigits == {<<1, 2, 4, 8, 16, 32, 64, 128>>}
Intensities == {15}

Init ==
    /\ devices \in 1..MaxDevices
    /\ InitDriver

Next ==
    \/ \E k \in Kinds : New(k)
    \/ \E f \in Fails(InitPlan(decode_mode, devices)) : InitOp(f)
    \/ \E f \in Fails(PowerPlan(decode_mode, devices, 1)) : PowerOn(f)
    \/ \E f \in Fails(PowerPlan(decode_mode, devices, 0)) : PowerOff(f)
    \/ \E a \in Devs : \E f \in Fails(ClearDisplayPlan(decode_mode, a)) : ClearDisplay(a, f)
    \/ \E f \in Fails(ClearAllPlan(decode_mode, devices)) : ClearAllDisplays(f)
    \/ \E a \in Devs, v \in Intensities :
         \E f \in Fails(WriteCommandPlan(decode_mode, a, "Intensity", v)) : SetIntensity(a, v, f)
    \/ \E a \in Devs, m \in Modes :
         \E f \in Fails(SetDecodeModePlan(decode_mode, a, m)) : SetDecodeMode(a, m, f)
    \/ \E a \in Devs, s \in StrArgs :
         \E f \in Fails(WriteStrPlan(decode_mode, a, s[1], s[2])) : WriteStr(a, s[1], s[2], f)
    \/ \E a \in Devs, s \in Strings :
         \E f \in Fails(WriteBcdPlan(decode_mode, a, s)) : WriteBcd(a, s, f)
    \/ \E a \in Devs, r \in RawDigits :
         \E f \in Fails(WriteDigitsPlan(decode_mode, a, r)) : WriteDigits(a, r, f)
    \/ \E a \in Devs, on \in BOOLEAN :
         \E f \in Fails(TestPlan(decode_mode, a, on)) : Test(a, on, f)
    \/ \E a \in Devs, p \in RawPairs :
         \E f \in Fails(<<Step(a, p[1], p[2], decode_mode)>>) : WriteRawByte(a, p[1], p[2], f)

Spec == Init /\ [][Next]_vars

\* The i32 values given to write_integer.
IntValues ==
    {0, -5, 1234, -9999999, -10000000, 99999998, 99999999, 100000000,
     MinI32, -2147483647, 2147483647}

\* The u32 values given to write_hex: 0, 1, 0xFF, 0x0FFFFFFF, 0x10000000,
\* 0x7FFFFFFF, 0x80000000, 0xDEADBEEF, 0xFFFFFFFF.
HexValues ==
    {U32(0, 0), U32(0, 1), U32(0, 255), U32(4095, 65535), U32(4096, 0),
     U32(32767, 65535), U32(32768, 0), U32(57005, 48879), U32(65535, 65535)}

\* The number formatting calls, on every chain and connector.
NextNum ==
    \/ \E a \in {devices - 1}, v \in IntValues, build \in Builds :
         \E f \in Fails(WriteStrPlan(decode_mode, a, pad_left(base_10_bytes(v)), 0)) :
            WriteInteger(a, v, build, f)
    \/ \E a \in {devices - 1}, v \in HexValues :
         \E f \in Fails(WriteStrPlan(decode_mode, a, pad_left(hex_bytes(v)), 0)) :
            WriteHex(a, v, f)

SpecNum == Init /\ [][NextNum]_vars

----------------------------------------------------------------------------
(* Observing a call *)

HasLast == log # <<>>
Last == log[Len(log)]

\* The single-frame writes.
RawOps == {"write_raw", "write_raw_byte"}
LastRawOk == HasLast /\ Last.op \in RawOps /\ Last.res = "Ok"

\* What a receiver clocked by sck sees on events lo..hi of a pin trace: bits,
\* the level of the data pin at each rising edge of sck, and the levels the
\* data and sck pins are left at; data and sck are the levels on entry.
RECURSIVE PinScan(_, _, _, _, _)
PinScan(w, lo, hi, data, sck) ==
    IF lo > hi THEN [bits |-> <<>>, data |-> data, sck |-> sck]
    ELSE IF lo = hi
    THEN IF w[lo].op = "data" THEN [bits |-> <<>>, data |-> w[lo].v, sck |-> sck]
         ELSE IF w[lo].op = "sck"
              THEN [bits |-> IF sck = 0 /\ w[lo].v = 1 THEN <<data>> ELSE <<>>,
                    data |-> data, sck |-> w[lo].v]
         ELSE [bits |-> <<>>, data |-> data, sck |-> sck]
    ELSE LET mid == (lo + hi) \div 2
             L == PinScan(w, lo, mid, data, sck)
             R == PinScan(w, mid + 1, hi, L.data, L.sck)
         IN  [bits |-> L.bits \o R.bits, data |-> R.data, sck |-> R.sck]

\* The sampled bits of a whole trace: sck idles low and the data pin is
\* undriven (-1) until first set.
PinSample(w) == PinScan(w, 1, Len(w), -1, 0).bits

\* Bits grouped by 8 into bytes, the first bit of a group the most significant.
BytesOfBits(bits) ==
    [j \in 1..(Len(bits) \div 8) |->
        LET b(i) == bits[8 * (j - 1) + i]
        IN  b(1) * 128 + b(2) * 64 + b(3) * 32 + b(4) * 16
            + b(5) * 8 + b(6) * 4 + b(7) * 2 + b(8)]

\* The bytes handed to SPI writes, concatenated.
RECURSIVE SpiBytes(_, _)
SpiBytes(w, i) ==
    IF i > Len(w) THEN <<>>
    ELSE (IF w[i].op = "spi" THEN w[i].v ELSE <<>>) \o SpiBytes(w, i + 1)

\* The byte sequence a wire trace carries to the chain.
WireBytes(w) ==
    IF \E i \in 1..Len(w) : w[i].op = "spi"
    THEN SpiBytes(w, 1)
    ELSE BytesOfBits(PinSample(w))

\* The positions of a trace where chip-select is driven.
CsAt(w, level) == {i \in 1..Len(w) : w[i].op = "cs" /\ w[i].v = level}

\* The chip-select operations of a trace, in order.
CsTrace(w) == SelectSeq(w, LAMBDA e : e.op = "cs")

\* A frame of n devices that carries header/data in the slot of device a and
\* zero in every other byte.
OnlySlot(frame, n, a, header, data) ==
    /\ Len(frame) = 2 * n
    /\ \A i \in 1..(2 * n) :
         frame[i] = (IF i = 2 * a + 1 THEN header ELSE IF i = 2 * a + 2 THEN data ELSE 0)

----------------------------------------------------------------------------
(* Claims about the frame connectors, under SpecConn *)

\* C1: for every chain length 1..=8 and address below it, a successful raw
\* write puts on the wire exactly 2 * devices bytes, zero everywhere except
\* header at byte 2 * addr and data at byte 2 * addr + 1, whatever the earlier
\* writes were.
C1_FrameOnlyAddressedSlot ==
    LastRawOk =>
        /\ OnlySlot(WireBytes(wire), devices, Last.addr, Last.arg[1], Last.arg[2])
        /\ Last.frames = <<WireBytes(wire)>>

\* C1 witness: a raw write on a chain of 8 after an earlier write to another
\* device with another pair.
C1_Witness ==
    /\ LastRawOk /\ Len(log) = 2 /\ devices = MAX_DISPLAYS
    /\ Last.op = "write_raw" /\ log[1].op = "write_raw" /\ log[1].res = "Ok"
    /\ log[1].addr = 7 /\ Last.addr = 3 /\ log[1].arg # Last.arg

\* C7: after a successful write_raw(a, reg, val) every device other than a
\* holds in every register what it held before, its slot carrying 0x00, 0x00.
C7_OtherDevicesUndisturbed ==
    (HasLast /\ Last.op = "write_raw" /\ Last.res = "Ok") =>
        \A b \in Devs \ {Last.addr} :
            /\ regs[b] = Last.regs0[b]
            /\ WireBytes(wire)[2 * b + 1] = Command.Noop
            /\ WireBytes(wire)[2 * b + 2] = 0

\* C7 witness: the write changed the addressed device while another device
\* holds a register programmed earlier.
C7_Witness ==
    /\ HasLast /\ Last.op = "write_raw" /\ Last.res = "Ok"
    /\ regs[Last.addr] # Last.regs0[Last.addr]
    /\ \E b \in Devs \ {Last.addr} : \E r \in RegCodes : regs[b][r] # 0

\* C8: in PinConnector and SpiConnectorSW a successful write_raw drives
\* chip-select low first, high last and exactly once each, so that every data
\* bit or byte goes out while it is low and it is high on return.
C8_ChipSelectBrackets ==
    (HasLast /\ Last.op = "write_raw" /\ Last.res = "Ok" /\ kind \in {"pin", "spisw"}) =>
        /\ CsAt(wire, 0) = {1}
        /\ CsAt(wire, 1) = {Len(wire)}
        /\ Len(wire) > 2
        /\ WireBytes(SubSeq(wire, 2, Len(wire) - 1)) = Last.frames[1]

\* C8 witness: a bit-banged frame for a chain of two, bracketed by chip-select.
C8_Witness ==
    /\ HasLast /\ Last.op = "write_raw" /\ Last.res = "Ok" /\ kind = "pin"
    /\ devices = 2 /\ Len(wire) = 98 /\ Last.addr = 1

\* C9: the realizations are indistinguishable: for the call just made, the
\* bytes sampled from PinConnector's data pin at the rising clock edges equal
\* the bytes SpiConnector and SpiConnectorSW hand to the SPI write, they are
\* what this connector put on the wire, and PinConnector and SpiConnectorSW
\* drive chip-select the same way.
C9_TransportsEquivalent ==
    (HasLast /\ Last.op = "write_raw" /\ Last.res = "Ok") =>
        LET F == ConnFrame(devices, Last.addr, Last.arg[1], Last.arg[2])
        IN  /\ BytesOfBits(PinSample(PinOps(F))) = SpiBytes(SpiOps(F), 1)
            /\ SpiBytes(SpiSWOps(F), 1) = SpiBytes(SpiOps(F), 1)
            /\ WireBytes(wire) = SpiBytes(SpiOps(F), 1)
            /\ CsTrace(PinOps(F)) = CsTrace(SpiSWOps(F))
            /\ CsTrace(PinOps(F)) = <<PinEv("cs", 0), PinEv("cs", 1)>>

\* C9 witness: a bit-banged write of the Power register, whose code 0x0C reads
\* differently in the other bit order.
C9_Witness ==
    /\ HasLast /\ Last.op = "write_raw" /\ Last.res = "Ok" /\ kind = "pin"
    /\ Last.arg = <<Command.Power, 1>> /\ devices = 3

----------------------------------------------------------------------------
(* Claims about the device controller, under Spec *)

LastIs(op) == HasLast /\ Last.op = op
LastOk(op) == LastIs(op) /\ Last.res = "Ok"

\* The driver has made no call since it was constructed, the last call aside.
FreshBeforeLast == Len(log) = 1 \/ (Len(log) > 1 /\ log[Len(log) - 1].op = "new")

\* A frame for n devices with header/data in the slot of device a.
SlotFrame(n, a, header, data) ==
    [i \in 1..(2 * n) |->
        IF i = 2 * a + 1 THEN header ELSE IF i = 2 * a + 2 THEN data ELSE 0]

\* The initialization sequence as the specification lists it.
RECURSIVE ListedInitLoop(_, _)
ListedInitLoop(i, n) ==
    IF i >= n THEN <<>>
    ELSE <<SlotFrame(n, i, 15, 0), SlotFrame(n, i, 11, 7), SlotFrame(n, i, 9, 0)>>
         \o [r \in 1..8 |-> SlotFrame(n, i, r, 0)]
         \o ListedInitLoop(i + 1, n)

ListedInit(n) == ListedInitLoop(0, n) \o [i \in 1..n |-> SlotFrame(n, i - 1, 12, 0)]

\* The slots of a frame that carry a register code.
ProgrammedSlots(frame) == {b \in Devs : frame[2 * b + 1] # 0}

WriteOps == {"write_str", "write_bcd", "write_digits"}

\* The mode each digit-writing operation forces.
ForcedMode(op) == IF op = "write_bcd" THEN "CodeBDigits7_0" ELSE "NoDecode"

\* C2 (as claimed): init on a freshly constructed driver issues, per device in
\* ascending order, DisplayTest <- 0, ScanLimit <- 7, DecodeMode <- 0 and Digit
\* 1..8 <- 0, then Power <- 0 for every device.
C2_InitIssuesListedFrames ==
    (LastOk("init") /\ FreshBeforeLast) => Last.frames = ListedInit(devices)

\* C3 (as claimed): after a successful set_decode_mode(addr, mode), made after
\* successful calls only, the DecodeMode register of device addr holds mode
\* and the cache equals mode.
C3_DecodeModeReachesDevice ==
    (LastOk("set_decode_mode") /\ \A i \in 1..Len(log) : log[i].res = "Ok") =>
        /\ regs[Last.addr][Command.DecodeMode] = ModeByte(Last.arg)
        /\ decode_mode = Last.arg

\* Two calls in a row of set_decode_mode with the same mode.
SameModeTwice(i) ==
    /\ log[i].op = "set_decode_mode" /\ log[i + 1].op = "set_decode_mode"
    /\ log[i].arg = log[i + 1].arg

\* C4 (as claimed): two successful calls in a row of set_decode_mode with the
\* same address and mode issue exactly one DecodeMode write in total.
C4_TwiceIssuesExactlyOne ==
    \A i \in 1..(Len(log) - 1) :
        (SameModeTwice(i) /\ log[i].addr = log[i + 1].addr
            /\ log[i].res = "Ok" /\ log[i + 1].res = "Ok")
        => Len(log[i].frames) + Len(log[i + 1].frames) = 1

\* C4 (amended): of two calls in a row of set_decode_mode with the same mode,
\* the first issues one DecodeMode write of that mode when the cached mode
\* differed from it and none when it did not, and the second issues none.
C4_TwiceIssuesAtMostOne ==
    \A i \in 1..(Len(log) - 1) :
        SameModeTwice(i) =>
            /\ log[i + 1].frames = <<>>
            /\ log[i].dm0 = log[i].arg => log[i].frames = <<>>
            /\ log[i].dm0 # log[i].arg =>
                 log[i].frames = <<SlotFrame(devices, log[i].addr, Command.DecodeMode,
                                             ModeByte(log[i].arg))>>

\* C4 witness: the first of the two calls changed the mode and wrote it.
C4_Witness ==
    /\ Len(log) = 2 /\ SameModeTwice(1)
    /\ log[1].dm0 # log[1].arg /\ Len(log[1].frames) = 1 /\ log[2].res = "Ok"
    /\ log[1].addr # log[2].addr

\* C5: a successful write_str, write_bcd or write_digits leaves the cached
\* decode mode as it was before the call, and when the forced mode differs
\* from that mode the last frame of the call is a DecodeMode write of it.
C5_DecodeModeRestored ==
    (HasLast /\ Last.op \in WriteOps /\ Last.res = "Ok") =>
        /\ decode_mode = Last.dm0
        /\ ForcedMode(Last.op) # Last.dm0 =>
             \E b \in Devs :
                Last.frames[Len(Last.frames)]
                    = SlotFrame(devices, b, Command.DecodeMode, ModeByte(Last.dm0))

\* C5 witness: write_bcd called while the cache held CodeBDigit0.
C5_Witness ==
    /\ LastOk("write_bcd") /\ Last.dm0 = "CodeBDigit0" /\ Len(Last.frames) = 10

\* C6 (as claimed): every frame of write_str, write_bcd and write_digits called
\* with addr programs a register of device addr and of no other device.
C6_FramesAddressDevice ==
    (HasLast /\ Last.op \in WriteOps) =>
        \A i \in 1..Len(Last.frames) : ProgrammedSlots(Last.frames[i]) = {Last.addr}

\* C10 (as claimed): when a constructor returns success, the frames of the
\* initialization sequence have been transmitted.
C10_ConstructorRunsInit ==
    LastOk("new") =>
        /\ Last.frames # <<>>
        /\ Last.frames = [i \in 1..Len(InitPlan("NoDecode", devices)) |->
                             StepFrame(InitPlan("NoDecode", devices)[i])]

----------------------------------------------------------------------------
(* Claims about transport failures, under SpecConn *)

PinNames == {"cs", "data", "sck"}

\* Whether w is the first Len(w) elements of full.
IsPrefix(w, full) == Len(w) <= Len(full) /\ w = SubSeq(full, 1, Len(w))

\* C13: when a pin operation or the SPI transfer fails during write_raw, the
\* failing operation is the last one the call attempts (chip-select is not
\* raised after it and no frame is latched), and the call returns Pin for a
\* failed pin operation and Spi for a failed SPI transfer, in every connector.
C13_FailureAbortsWriteRaw ==
    (LastIs("write_raw") /\ Last.res # "Ok") =>
        /\ wire # <<>>
        /\ IsPrefix(wire, WireOps(kind, Last.frames[1]))
        /\ Last.res = (IF wire[Len(wire)].op \in PinNames THEN "Pin" ELSE "Spi")
        /\ \A i \in 1..(Len(wire) - 1) : ~(wire[i].op = "cs" /\ wire[i].v = 1)
        /\ regs = Last.regs0

\* C13 witness: SpiConnectorSW whose SPI transfer fails after chip-select was
\* lowered.
C13_Witness ==
    /\ LastIs("write_raw") /\ kind = "spisw" /\ Last.res = "Spi"
    /\ Len(wire) = 2 /\ wire[1] = PinEv("cs", 0) /\ wire[2].op = "spi"

IsData(ev) == ev.op = "data"
IsClockHigh(ev) == ev = PinEv("sck", 1)
IsClockLow(ev) == ev = PinEv("sck", 0)

\* C20: a completed PinConnector write_raw sets the data pin once per bit, for
\* the frame bytes in order and bit 7 down to bit 0 of each, high for 1 and low
\* for 0, each time followed by the clock going high and then low; a chain of n
\* devices gets 16 * n clock pulses, and the data pin is only set while the
\* clock is low.
C20_PinShiftsMsbFirst ==
    (LastIs("write_raw") /\ Last.res = "Ok" /\ kind = "pin") =>
        LET frame == Last.frames[1]
            data == SelectSeq(wire, IsData)
        IN  /\ Len(SelectSeq(wire, IsClockHigh)) = 16 * devices
            /\ Len(SelectSeq(wire, IsClockLow)) = 16 * devices
            /\ Len(data) = 16 * devices
            /\ \A j \in 1..Len(data) :
                 data[j].v = (IF BitSet(frame[((j - 1) \div 8) + 1], 7 - ((j - 1) % 8))
                              THEN 1 ELSE 0)
            /\ \A k \in 1..Len(wire) :
                 IsData(wire[k]) =>
                    /\ k + 2 <= Len(wire)
                    /\ IsClockHigh(wire[k + 1]) /\ IsClockLow(wire[k + 2])
                    /\ ~IsClockHigh(wire[k - 1])

\* C20 witness: Power <- 1 bit-banged to the second device of a chain of two,
\* the set bits of 0x0C and 0x01 on the data pin at their places.
C20_Witness ==
    /\ LastIs("write_raw") /\ Last.res = "Ok" /\ kind = "pin" /\ devices = 2
    /\ Last.frames[1] = <<0, 0, Command.Power, 1>>
    /\ Len(wire) = 98
    /\ wire[2 + 3 * 20] = PinEv("data", 1) /\ wire[2 + 3 * 21] = PinEv("data", 1)
    /\ wire[2 + 3 * 22] = PinEv("data", 0) /\ wire[2 + 3 * 31] = PinEv("data", 1)

----------------------------------------------------------------------------
(* Claims about the chain length, under SpecChain *)

\* C11 (as claimed): the device count of a connector is within 1..=8 (a larger
\* count is clamped at construction), so write_raw transmits at most 16 bytes
\* and never reads past the 16-byte buffer.
C11_DeviceCountClamped ==
    LastIs("write_raw") =>
        /\ devices \in 1..MAX_DISPLAYS
        /\ Last.res # "Panic"
        /\ \A i \in 1..Len(Last.frames) : Len(Last.frames[i]) = 2 * devices

\* C22: in PinConnector and SpiConnector, write_raw with an address of at
\* least the chain length and below 8 is not rejected: it goes to the
\* transport and, when no transport operation fails, returns success; the
\* frame it transmits is 2 * devices zero bytes, and no register of any device
\* changes.
C22_AddressPastChainSendsZeros ==
    (LastIs("write_raw") /\ kind \in {"pin", "spi"} /\ devices <= MAX_DISPLAYS
        /\ Last.addr >= devices /\ Last.addr < MAX_DISPLAYS) =>
        /\ Last.res # "Panic"
        /\ wire # <<>>
        /\ Last.frames = <<Zeros(2 * devices)>>
        /\ Last.res = "Ok" =>
             /\ wire = WireOps(kind, Zeros(2 * devices))
             /\ WireBytes(wire) = Zeros(2 * devices)
        /\ Last.res # "Ok" => Last.res = ErrOf(wire[Len(wire)])
        /\ regs = Last.regs0

\* C22 witness: after Power <- 1 reached device 0 of a chain of two, a
\* bit-banged write_raw to address 7 returns success and leaves it there.
C22_Witness ==
    /\ Len(log) = 2 /\ LastIs("write_raw") /\ Last.res = "Ok" /\ kind = "pin"
    /\ devices = 2 /\ Last.addr = 7 /\ Last.arg = <<Command.Digit0, 255>>
    /\ log[1].addr = 0 /\ log[1].res = "Ok"
    /\ regs[0][Command.Power] = 1 /\ buffer[15] = Command.Digit0 /\ buffer[16] = 255

----------------------------------------------------------------------------
(* Further claims about the device controller, under Spec *)

DigitRegs == 1..8

\* C12 (as claimed): after a successful clear_all_displays all 8 digit
\* registers of every device hold 0x00, whatever they held before.
C12_ClearAllClearsEveryDigit ==
    LastOk("clear_all_displays") =>
        \A b \in Devs : \A r \in DigitRegs : regs[b][r] = 0


----------------------------------------------------------------------------
(* Claims about failing controller calls, under Spec *)

CtlOps == {"power_on", "power_off", "clear_display", "set_intensity",
           "set_decode_mode", "write_str", "write_bcd", "write_digits",
           "test", "init"}

\* The frames the call recorded in r issues when nothing fails, from the
\* cached decode mode r.dm0 it started with.
PlanOf(r) ==
    CASE r.op = "power_on" -> PowerPlan(r.dm0, devices, 1)
      [] r.op = "power_off" -> PowerPlan(r.dm0, devices, 0)
      [] r.op = "clear_display" -> ClearDisplayPlan(r.dm0, r.addr)
      [] r.op = "set_intensity" -> WriteCommandPlan(r.dm0, r.addr, "Intensity", r.arg)
      [] r.op = "set_decode_mode" -> SetDecodeModePlan(r.dm0, r.addr, r.arg)
      [] r.op = "write_str" -> WriteStrPlan(r.dm0, r.addr, r.arg[1], r.arg[2])
      [] r.op = "write_bcd" -> WriteBcdPlan(r.dm0, r.addr, r.arg)
      [] r.op = "write_digits" -> WriteDigitsPlan(r.dm0, r.addr, r.arg)
      [] r.op = "test" -> TestPlan(r.dm0, r.addr, r.arg)
      [] r.op = "init" -> InitPlan(r.dm0, devices)

FramesOf(r) == [i \in 1..Len(PlanOf(r)) |-> StepFrame(PlanOf(r)[i])]

\* C14: a controller operation that fails has issued the frames of its
\* sequence up to the failing one and none after it, the failing frame once;
\* the devices hold what the frames before it loaded, and the error returned
\* is the one of the transport operation that failed.
C14_StopsAtFirstFailure ==
    (HasLast /\ Last.op \in CtlOps /\ Last.res # "Ok") =>
        LET n == Len(Last.frames) IN
        /\ n >= 1
        /\ IsPrefix(Last.frames, FramesOf(Last))
        /\ regs = LatchAll(Last.regs0, SubSeq(Last.frames, 1, n - 1))
        /\ wire # <<>>
        /\ IsPrefix(wire, ConnWriteRawBytes(kind, Last.frames[n]))
        /\ Last.res = (IF wire[Len(wire)].op \in PinNames THEN "Pin" ELSE "Spi")

\* C14 witness: write_bcd whose second of ten frames fails in the SPI transfer.
C14_Witness ==
    /\ LastIs("write_bcd") /\ Last.res = "Spi" /\ Len(Last.frames) = 2
    /\ Len(FramesOf(Last)) = 10 /\ regs # Last.regs0

RetryOps == {"set_decode_mode", "write_str", "write_bcd", "write_digits"}

\* The cached decode mode after the call recorded in r when nothing fails.
FinalOf(r) == IF r.op = "set_decode_mode" THEN r.arg ELSE r.dm0

\* C15 (as claimed): when set_decode_mode, write_str, write_bcd or write_digits
\* fails and the same call, repeated at once, succeeds, the cached decode mode
\* and the registers of the devices are those a single successful call leaves
\* when made from the state before the failed attempt.
C15_RetryIsSafe ==
    (Len(log) >= 2 /\ Last.res = "Ok" /\ Last.op \in RetryOps) =>
        LET r == log[Len(log) - 1] IN
        (r.res # "Ok" /\ r.op = Last.op /\ r.addr = Last.addr /\ r.arg = Last.arg) =>
            /\ decode_mode = FinalOf(r)
            /\ regs = LatchAll(r.regs0, FramesOf(r))

\* C16 (as claimed): after some operation has failed, an init that completes
\* successfully leaves every device with DisplayTest = 0, ScanLimit = 7,
\* DecodeMode = NoDecode, the 8 digit registers 0 and Power = 0, and the cached
\* decode mode NoDecode.
C16_InitResynchronizes ==
    (LastOk("init") /\ \E i \in 1..(Len(log) - 1) : log[i].res # "Ok") =>
        /\ decode_mode = "NoDecode"
        /\ \A b \in Devs :
            /\ regs[b][Command.DisplayTest] = 0
            /\ regs[b][Command.ScanLimit] = 7
            /\ regs[b][Command.DecodeMode] = ModeByte("NoDecode")
            /\ \A r \in DigitRegs : regs[b][r] = 0
            /\ regs[b][Command.Power] = 0

----------------------------------------------------------------------------
(* Claims about the digit frames, under Spec *)

\* The bytes the segment table of write_str lists.
SsbChars ==
    {32, 46, 45, 95} \cup (48..57)
    \cup {97, 65, 98, 99, 67, 100, 101, 69, 102, 70, 103, 71, 104, 72, 105, 73,
          106, 74, 108, 76, 110, 78, 111, 79, 112, 80, 113, 115, 83, 117, 85}

\* p | 0x80
WithDot(p) == IF p >= 128 THEN p ELSE p + 128

\* The number of frames a digit-writing call issues before its digit frames.
ModeFrames(r) == IF r.dm0 # ForcedMode(r.op) THEN 1 ELSE 0

\* C17: the digit frames of write_str come in string order, character i in
\* digit register 9 - i of the addressed device; the data byte is the
\* character's segment pattern, with 0x80 set when bit 8 - i of the dot mask is
\* set, and a byte the table does not list gives the '?' pattern.
C17_WriteStrDigitFrames ==
    LastIs("write_str") =>
        LET off == ModeFrames(Last)
            string == Last.arg[1]
            dots == Last.arg[2]
        IN  /\ Last.res = "Ok" => Len(Last.frames) >= off + 8
            /\ \A i \in 1..8 :
                off + i <= Len(Last.frames) =>
                    /\ Last.frames[off + i]
                         = SlotFrame(devices, Last.addr, 9 - i,
                                     IF BitSet(dots, 8 - i)
                                     THEN WithDot(ssb_table(string[i]))
                                     ELSE ssb_table(string[i]))
                    /\ (string[i] \notin SsbChars /\ ~BitSet(dots, 8 - i)) =>
                         Last.frames[off + i][2 * Last.addr + 2] = 229

\* C17 witness: " -HeLP.z" with the dots of the first, second and last
\* character, written in full to the last device of a chain of three.
C17_Witness ==
    /\ LastOk("write_str") /\ Last.arg[2] = 193 /\ devices = 3 /\ Last.addr = 2
    /\ Last.frames[1][6] = 128 /\ Last.frames[2][6] = 129 /\ Last.frames[8][6] = 229
    /\ Last.frames[7] = <<0, 0, 0, 0, 2, 128>>

AsciiDigits == 48..57

\* C19: write_bcd(0, s) on a chain of one device with the cache at NoDecode,
\* s being 8 characters '0'..'9', issues DecodeMode <- 0xFF, then one frame per
\* character to Digit8..Digit1 in string order, then DecodeMode <- 0x00;
\* the data byte of each digit frame has the digit's value in its low nibble
\* and bit 7 clear.
C19_WriteBcdDigitFrames ==
    (LastOk("write_bcd") /\ devices = 1 /\ Last.addr = 0 /\ Last.dm0 = "NoDecode"
        /\ \A i \in 1..8 : Last.arg[i] \in AsciiDigits) =>
        /\ Len(Last.frames) = 10
        /\ Last.frames[1] = <<Command.DecodeMode, 255>>
        /\ Last.frames[10] = <<Command.DecodeMode, 0>>
        /\ \A i \in 1..8 :
            /\ Len(Last.frames[i + 1]) = 2
            /\ Last.frames[i + 1][1] = 9 - i
            /\ Last.frames[i + 1][2] % 16 = Last.arg[i] - 48
            /\ Last.frames[i + 1][2] < 128
        /\ \A c \in AsciiDigits : bcd_byte(c) % 16 = c - 48 /\ bcd_byte(c) < 128

\* C19 witness: write_bcd(0, "12345678") completed on a chain of one device,
\* the cache at NoDecode before and after.
C19_Witness ==
    /\ LastOk("write_bcd") /\ devices = 1 /\ Last.dm0 = "NoDecode"
    /\ Last.arg = <<49, 50, 51, 52, 53, 54, 55, 56>>
    /\ Last.frames[2] = <<8, 49>> /\ Last.frames[9] = <<1, 56>>
    /\ decode_mode = "NoDecode" /\ regs[0][Command.DecodeMode] = 0

\* Whether frame carries a DecodeMode write of mode in the slot of some device
\* and nothing else.
IsModeFrame(frame, mode) ==
    \E b \in Devs : frame = SlotFrame(devices, b, Command.DecodeMode, ModeByte(mode))

\* C21: a completed write_digits(addr, raw) issues a DecodeMode write of
\* NoDecode when the cached mode was another one, then 8 digit frames in array
\* order, byte i unmodified in digit register i of device addr, then a
\* DecodeMode write of the prior mode when it was not NoDecode, and leaves the
\* cache at the prior mode.
C21_WriteDigitsAscending ==
    LastOk("write_digits") =>
        LET off == ModeFrames(Last)
            raw == Last.arg
        IN  /\ Len(Last.frames) = 8 + 2 * off
            /\ off = 1 =>
                 /\ IsModeFrame(Last.frames[1], "NoDecode")
                 /\ IsModeFrame(Last.frames[10], Last.dm0)
            /\ \A i \in 1..8 :
                 Last.frames[off + i] = SlotFrame(devices, Last.addr, i, raw[i])
            /\ decode_mode = Last.dm0

\* C21 witness: write_digits to the second device of a chain of two while the
\* cache held CodeBDigits7_0, the byte with only bit 7 set landing in Digit8.
C21_Witness ==
    /\ LastOk("write_digits") /\ devices = 2 /\ Last.addr = 1
    /\ Last.dm0 = "CodeBDigits7_0" /\ Len(Last.frames) = 10
    /\ Last.frames[2] = <<0, 0, 1, 1>> /\ Last.frames[9] = <<0, 0, 8, 128>>
    /\ regs[1][8] = 128 /\ regs[1][1] = 1

----------------------------------------------------------------------------
(* Claims about number formatting, under SpecNum *)

\* The decimal digits of n >= 0, most significant first.
RECURSIVE DecimalOf(_)
DecimalOf(n) == IF n < 10 THEN <<48 + n>> ELSE Append(DecimalOf(n \div 10), 48 + (n % 10))

\* The decimal representation of v with its sign.
SignedDecimal(v) ==
    IF v = MinI32 THEN <<45, 50, 49, 52, 55, 52, 56, 51, 54, 52, 56>>    \* "-2147483648"
    ELSE IF v < 0 THEN <<45>> \o DecimalOf(0 - v)
    ELSE DecimalOf(v)

\* s right-justified in 8 characters, spaces on the left.
RightJustified(s) ==
    [k \in 1..8 |-> IF k <= 8 - Len(s) THEN 32 ELSE s[k - (8 - Len(s))]]

\* C18 (as claimed): write_integer hands write_str the signed decimal
\* representation of v right-justified in 8 characters when it has at most 8
\* characters, and right-justified "Err" otherwise, with dot mask 0.
C18_WriteIntegerFormats ==
    LastIs("write_integer") =>
        LET v == Last.arg.value IN
        /\ Last.arg.string
             = RightJustified(IF Len(SignedDecimal(v)) <= 8 THEN SignedDecimal(v)
                              ELSE <<69, 114, 114>>)
        /\ Last.arg.dots = 0

FormatOps == {"write_integer", "write_hex"}

\* C23: write_integer and write_hex do not panic while formatting: every index
\* at which base_10_bytes or hex_bytes writes the 8-byte digit buffer is below
\* 8, base_10_bytes never negates the least i32, and the slice given to
\* pad_left has at most 8 bytes.
C23_FormattingNeverPanics ==
    (HasLast /\ Last.op \in FormatOps) =>
        LET v == Last.arg.value
            written == IF Last.op = "write_integer" THEN Base10Written(v) ELSE HexWritten(v)
            slice == IF Last.op = "write_integer" THEN base_10_bytes(v) ELSE hex_bytes(v)
        IN  /\ Last.res # "Panic"
            /\ \A i \in 0..(Len(written) - 1) : i < 8
            /\ Last.op = "write_integer" => ~NegationOverflows(v)
            /\ Len(slice) <= 8
            /\ Last.arg.string = RightJustified(slice)

\* C23 witness: write_integer of the least i32, which is turned away before
\* the negation, then write_hex of 0xFFFFFFFF, which fills the buffer.
C23_Witness ==
    /\ Len(log) = 2
    /\ log[1].op = "write_integer" /\ log[1].arg.value = MinI32 /\ log[1].res = "Ok"
    /\ log[1].arg.string = <<32, 32, 32, 32, 32, 69, 114, 114>>
    /\ LastOk("write_hex") /\ Last.arg.value = U32(65535, 65535)
    /\ Last.arg.string = <<102, 102, 102, 102, 102, 102, 102, 102>>

====
